---- MODULE Spec2Model ----
(***************************************************************************)
(* A model of the todo command line application of src/cli.py.             *)
(*                                                                         *)
(* Text (file contents, names, descriptions, printed lines) is a sequence  *)
(* of one-character strings, so that the three storage encodings are       *)
(* modelled character by character: json.dump/json.load with indent=4,     *)
(* csv.DictWriter/csv.DictReader in the excel dialect, and the line text   *)
(* format written with f"{todo}\n" and read with str.splitlines().         *)
(*                                                                         *)
(* One step of the model is one invocation of the program: a process       *)
(* starts (the module level statements run), exactly one command runs,     *)
(* and the process exits.  The variables cmd, args, loaded, output, error  *)
(* and current_file_path describe the invocation that ended last.          *)
(***************************************************************************)
EXTENDS Integers, Sequences, FiniteSets, TLC

VARIABLES
    storageType,        \* config['DEFAULT']['StorageType']
    files,              \* the file system: path -> file, or Absent
    current_file_path,  \* the global of cli.py:27 when the last process ended
    cmd,                \* the command of the last invocation
    args,               \* its arguments
    loaded,             \* what load_todos returned in it (the local `todos`)
    saved,              \* the collection it gave to save_todos, if it saved
    output,             \* the lines it echoed
    error,              \* the uncaught exception that ended it, or NoError
    overridden          \* history: some earlier invocation ran signin

vars == <<storageType, files, current_file_path, cmd, args, loaded, saved,
          output, error, overridden>>

----------------------------------------------------------------------------
(* Bounds and input sets *)

\* add-todo is not invoked on a collection of MaxLen or more entries
MaxLen == 3

LF == "\n"
CR == "\r"
DQ == "\""
BS == "\\"
\* a byte that is not valid in the text encoding: reading it raises
\* UnicodeDecodeError
InvalidByte == "xFF"

\* the command lines of add-todo: a plain name, and a name holding the
\* characters the encodings treat specially (quote, comma, line feed,
\* backslash)
AddInputs ==
    { [priority |-> "h", name |-> <<"X">>, description |-> <<"Y">>],
      [priority |-> "m", name |-> <<DQ, ",", LF, BS>>, description |-> <<"Y">>] }
HelloNames == { <<"X">> }
\* list-todos -p: a key no stored entry has, and one some entries have
FilterKeys == {"o", "h"}
\* the indices given to delete-todo: every index of a stored collection, the
\* first ones past its end, the last entry counted from the end, and a
\* negative index before the start of every stored collection
Indices == {0 - (MaxLen + 2), 0 - 1} \cup (0 .. (MaxLen + 1))

None == "None"
NoError == "NoError"

DefaultFileName == "todos"     \* config['DEFAULT']['FileName']
OtherPath == "other"           \* a path typed at the signin prompt
Paths == {DefaultFileName, OtherPath}
Formats == {"json", "csv", "txt"}

\* contents the todo file may have before the first invocation, besides
\* not existing: empty, cut off after the first character of a JSON array,
\* or not text at all
InitialContents == { <<>>, <<"[">>, <<InvalidByte>> }

----------------------------------------------------------------------------
(* Text helpers *)

Range(s) == { s[i] : i \in 1..Len(s) }

\* the first position from `from` on that holds a character of `set`
\* (respectively none of them), or Len(s) + 1
FirstIn(s, from, set) ==
    LET c == { i \in from..Len(s) : s[i] \in set }
    IN  IF c = {} THEN Len(s) + 1 ELSE CHOOSE i \in c : \A j \in c : i <= j

FirstNotIn(s, from, set) ==
    LET c == { i \in from..Len(s) : s[i] \notin set }
    IN  IF c = {} THEN Len(s) + 1 ELSE CHOOSE i \in c : \A j \in c : i <= j

\* str(n) for n >= 0
Digit(d) == CASE d = 0 -> "0" [] d = 1 -> "1" [] d = 2 -> "2" [] d = 3 -> "3"
              [] d = 4 -> "4" [] d = 5 -> "5" [] d = 6 -> "6" [] d = 7 -> "7"
              [] d = 8 -> "8" [] d = 9 -> "9"
RECURSIVE Str(_)
Str(n) == IF n < 10 THEN <<Digit(n)>> ELSE Str(n \div 10) \o <<Digit(n % 10)>>

W_name == <<"n","a","m","e">>
W_description == <<"d","e","s","c","r","i","p","t","i","o","n">>
W_priority == <<"p","r","i","o","r","i","t","y">>
W_None == <<"N","o","n","e">>

\* A faulty variant of PRIORITIES, every key but the first one level too
\* high: what the scenario of C6 as stated would need.
PRIORITIES_Shifted(k) ==
    CASE k = "o" -> <<"O","p","t","i","o","n","a","l">>
      [] k = "l" -> <<"M","e","d","i","u","m">>
      [] k = "m" -> <<"H","i","g","h">>
      [] k = "h" -> <<"C","r","u","c","i","a","l">>
      [] k = "c" -> <<"C","r","u","c","i","a","l">>

\* cli.py:18-24
PRIORITIES(k) ==
    CASE k = "o" -> <<"O","p","t","i","o","n","a","l">>
      [] k = "l" -> <<"L","o","w">>
      [] k = "m" -> <<"M","e","d","i","u","m">>
      [] k = "h" -> <<"H","i","g","h">>
      [] k = "c" -> <<"C","r","u","c","i","a","l">>

\* f"{name}: {description} [Priority: {priority}]"  (cli.py:105, 136)
FormatTodo(name, description, priority) ==
    name \o <<":", " ">> \o description
         \o <<" ", "[", "P","r","i","o","r","i","t","y", ":", " ">>
         \o priority \o <<"]">>

\* f"({idx}) - {text}"  (cli.py:134, 136)
FormatLine(idx, text) == <<"(">> \o Str(idx) \o <<")", " ", "-", " ">> \o text

----------------------------------------------------------------------------
(* The line text encoding: cli.py:43-44 and cli.py:66-68 *)

\* for todo in todos: f.write(f"{todo}\n")
RECURSIVE DumpTxt(_)
DumpTxt(todos) ==
    IF todos = <<>> THEN <<>>
    ELSE Head(todos) \o <<LF>> \o DumpTxt(Tail(todos))

\* str.splitlines(): a line ends at each line feed; text after the last
\* line feed is a line when it is not empty.  i is where the next line starts.
RECURSIVE SplitLinesFrom(_, _, _)
SplitLinesFrom(s, i, acc) ==
    IF i > Len(s) THEN acc
    ELSE SplitLinesFrom(s, FirstIn(s, i, {LF}) + 1,
                        Append(acc, SubSeq(s, i, FirstIn(s, i, {LF}) - 1)))

SplitLines(s) == SplitLinesFrom(s, 1, <<>>)

----------------------------------------------------------------------------
(* The tabular encoding: csv.DictWriter and csv.DictReader, excel dialect  *)
(* (delimiter ',', quotechar '"', doublequote, lineterminator '\r\n',      *)
(* QUOTE_MINIMAL), cli.py:39-41 and cli.py:60-64                           *)

\* the value DictReader gives a column the row is too short for; DictWriter
\* writes it as the empty field
NoneVal == <<None>>

CsvNeedsQuote(f) == \E i \in 1..Len(f) : f[i] \in {",", DQ, CR, LF}

RECURSIVE CsvDoubleQuotes(_)
CsvDoubleQuotes(f) ==
    IF f = <<>> THEN <<>>
    ELSE (IF Head(f) = DQ THEN <<DQ, DQ>> ELSE <<Head(f)>>)
         \o CsvDoubleQuotes(Tail(f))

CsvField(f) ==
    IF f = NoneVal THEN <<>>
    ELSE IF CsvNeedsQuote(f) THEN <<DQ>> \o CsvDoubleQuotes(f) \o <<DQ>>
    ELSE f

\* writer.writerow: the three columns of fieldnames, in that order
CsvRow(a, b, c) ==
    CsvField(a) \o <<",">> \o CsvField(b) \o <<",">> \o CsvField(c) \o <<CR, LF>>

RECURSIVE CsvRows(_)
CsvRows(todos) ==
    IF todos = <<>> THEN <<>>
    ELSE CsvRow(Head(todos).name, Head(todos).description, Head(todos).priority)
         \o CsvRows(Tail(todos))

\* writer.writeheader(); writer.writerows(todos)
DumpCsv(todos) == CsvRow(W_name, W_description, W_priority) \o CsvRows(todos)

\* The reader (Modules/_csv.c, parse_process_char), one field at a time.
\* A field that starts with the quote character runs to its closing quote:
\* the first quote after an even number of quotes that is not followed by
\* a quote; what follows the closing quote up to the next delimiter or line
\* end is taken as it is.  A quote inside an unquoted field is a character.
CsvClosing(s, q) ==
    LET c == { j \in (q + 1)..Len(s) :
                 /\ s[j] = DQ
                 /\ (j = Len(s) \/ s[j + 1] # DQ)
                 /\ Cardinality({ m \in (q + 1)..(j - 1) : s[m] = DQ }) % 2 = 0 }
    IN  IF c = {} THEN Len(s) + 1 ELSE CHOOSE j \in c : \A k \in c : j <= k

\* the text of a quoted field: a doubled quote is one quote
RECURSIVE CsvUndouble(_)
CsvUndouble(b) ==
    IF b = <<>> THEN <<>>
    ELSE IF Head(b) = DQ /\ Len(b) >= 2 /\ b[2] = DQ
         THEN <<DQ>> \o CsvUndouble(Tail(Tail(b)))
         ELSE <<Head(b)>> \o CsvUndouble(Tail(b))

CsvQuotedField(s, i, close) ==
    [val |-> CsvUndouble(SubSeq(s, i + 1, close - 1))
                 \o SubSeq(s, close + 1, FirstIn(s, close + 1, {",", CR, LF}) - 1),
     end |-> FirstIn(s, close + 1, {",", CR, LF})]

\* the field that starts at i: its value and the position of the delimiter
\* or line end after it
CsvReadField(s, i) ==
    IF i <= Len(s) /\ s[i] = DQ THEN CsvQuotedField(s, i, CsvClosing(s, i))
    ELSE [val |-> SubSeq(s, i, FirstIn(s, i, {",", CR, LF}) - 1),
          end |-> FirstIn(s, i, {",", CR, LF})]

\* the rows of the file: a field starts at i; after a delimiter the next
\* field of the row follows, after a line end the row is complete and the
\* next row starts at the next character that is no line end
RECURSIVE CsvRead(_, _, _, _)
CsvAfterField(s, f, row, rows) ==
    IF f.end <= Len(s) /\ s[f.end] = ","
    THEN CsvRead(s, f.end + 1, Append(row, f.val), rows)
    ELSE IF FirstNotIn(s, f.end, {CR, LF}) > Len(s)
         THEN Append(rows, Append(row, f.val))
         ELSE CsvRead(s, FirstNotIn(s, f.end, {CR, LF}), <<>>,
                      Append(rows, Append(row, f.val)))

CsvRead(s, i, row, rows) == CsvAfterField(s, CsvReadField(s, i), row, rows)

CsvReadRows(s) ==
    IF FirstNotIn(s, 1, {CR, LF}) > Len(s) THEN <<>>
    ELSE CsvRead(s, FirstNotIn(s, 1, {CR, LF}), <<>>, <<>>)

\* dict(zip(fieldnames, row)) with restval None.  The header row of every
\* file that has data rows is the one DumpCsv writes, so the columns are
\* taken by position; values beyond the third column (restkey) are left out.
CsvColumn(row, k) == IF k <= Len(row) THEN row[k] ELSE NoneVal

CsvRecord(row) ==
    [name |-> CsvColumn(row, 1), description |-> CsvColumn(row, 2),
     priority |-> CsvColumn(row, 3)]

CsvRecords(rows) ==
    IF rows = <<>> THEN <<>>
    ELSE [k \in 1..(Len(rows) - 1) |-> CsvRecord(rows[k + 1])]

\* list(csv.DictReader(f)): the first row is the header
LoadCsv(s) == CsvRecords(CsvReadRows(s))

----------------------------------------------------------------------------
(* The structured encoding: json.dump(todos, f, indent=4) and json.load,   *)
(* cli.py:36-37 and cli.py:57-58                                           *)

JsonEscape(c) ==
    CASE c = DQ -> <<BS, DQ>>
      [] c = BS -> <<BS, BS>>
      [] c = LF -> <<BS, "n">>
      [] c = CR -> <<BS, "r">>
      [] OTHER -> <<c>>

RECURSIVE JsonChars(_)
JsonChars(s) ==
    IF s = <<>> THEN <<>> ELSE JsonEscape(Head(s)) \o JsonChars(Tail(s))

JsonString(s) == <<DQ>> \o JsonChars(s) \o <<DQ>>

Indent4 == <<" ", " ", " ", " ">>
Indent8 == Indent4 \o Indent4

JsonMember(key, value) ==
    Indent8 \o JsonString(key) \o <<":", " ">> \o JsonString(value)

JsonObject(todo) ==
    Indent4 \o <<"{", LF>>
        \o JsonMember(W_name, todo.name) \o <<",", LF>>
        \o JsonMember(W_description, todo.description) \o <<",", LF>>
        \o JsonMember(W_priority, todo.priority) \o <<LF>>
        \o Indent4 \o <<"}">>

RECURSIVE JsonObjects(_)
JsonObjects(todos) ==
    IF Len(todos) = 1 THEN JsonObject(Head(todos))
    ELSE JsonObject(Head(todos)) \o <<",", LF>> \o JsonObjects(Tail(todos))

DumpJson(todos) ==
    IF todos = <<>> THEN <<"[", "]">>
    ELSE <<"[", LF>> \o JsonObjects(todos) \o <<LF, "]">>

\* The decoder, for the documents the program writes: an array of objects
\* whose members are the strings name, description and priority.  A result
\* is [ok, pos, val]: whether the text parsed, the position after it, and
\* the value.  Text that is no JSON document does not parse (JSONDecodeError);
\* JSON documents of another shape are outside the model and never on disk.
JsonFail == [ok |-> FALSE, pos |-> 0, val |-> <<>>]
JsonOk(p, v) == [ok |-> TRUE, pos |-> p, val |-> v]

JsonAt(s, i, c) == i <= Len(s) /\ s[i] = c

RECURSIVE JsonSkipWs(_, _)
JsonSkipWs(s, i) ==
    IF i <= Len(s) /\ s[i] \in {" ", LF, CR, "\t"} THEN JsonSkipWs(s, i + 1) ELSE i

\* the characters of a string, from position i after the opening quote
RECURSIVE JsonStringBody(_, _, _)
JsonStringBody(s, i, acc) ==
    IF i > Len(s) THEN JsonFail
    ELSE IF s[i] = DQ THEN JsonOk(i + 1, acc)
    ELSE IF s[i] = BS THEN
        IF i + 1 > Len(s) THEN JsonFail
        ELSE CASE s[i + 1] = DQ -> JsonStringBody(s, i + 2, Append(acc, DQ))
               [] s[i + 1] = BS -> JsonStringBody(s, i + 2, Append(acc, BS))
               [] s[i + 1] = "n" -> JsonStringBody(s, i + 2, Append(acc, LF))
               [] s[i + 1] = "r" -> JsonStringBody(s, i + 2, Append(acc, CR))
               [] OTHER -> JsonFail
    ELSE IF s[i] \in {LF, CR, InvalidByte} THEN JsonFail
    ELSE JsonStringBody(s, i + 1, Append(acc, s[i]))

JsonParseString(s, i) ==
    IF JsonAt(s, i, DQ) THEN JsonStringBody(s, i + 1, <<>>) ELSE JsonFail

\* the position after the character c that follows the result r, white
\* space skipped, or 0 when r failed or another character is there
JsonAfter(s, j, c) == IF JsonAt(s, j, c) THEN j + 1 ELSE 0
JsonThen(s, r, c) == IF r.ok THEN JsonAfter(s, JsonSkipWs(s, r.pos), c) ELSE 0

\* "key": "value" with the key that is expected there
JsonMemberValue(s, colon) ==
    IF colon = 0 THEN JsonFail ELSE JsonParseString(s, JsonSkipWs(s, colon))

JsonMemberKey(s, k, key) ==
    IF k.ok /\ k.val = key THEN JsonMemberValue(s, JsonThen(s, k, ":"))
    ELSE JsonFail

JsonParseMember(s, i, key) ==
    IF i = 0 THEN JsonFail
    ELSE JsonMemberKey(s, JsonParseString(s, JsonSkipWs(s, i)), key)

\* an object: the three members, in the order json.dump writes them
JsonObjectEnd(s, n, d, p, close) ==
    IF close = 0 THEN JsonFail
    ELSE JsonOk(close, [name |-> n.val, description |-> d.val,
                        priority |-> p.val])

JsonObjectPriority(s, n, d, p) == JsonObjectEnd(s, n, d, p, JsonThen(s, p, "}"))

JsonObjectDescription(s, n, d) ==
    JsonObjectPriority(s, n, d, JsonParseMember(s, JsonThen(s, d, ","), W_priority))

JsonObjectName(s, n) ==
    JsonObjectDescription(s, n, JsonParseMember(s, JsonThen(s, n, ","), W_description))

JsonParseObject(s, i) ==
    JsonObjectName(s, JsonParseMember(s, JsonAfter(s, i, "{"), W_name))

\* the elements of an array, from the position of an element
RECURSIVE JsonParseElements(_, _, _)
JsonAfterElement(s, o, c, acc) ==
    IF ~o.ok THEN JsonFail
    ELSE IF JsonAt(s, c, ",") THEN JsonParseElements(s, c + 1, Append(acc, o.val))
    ELSE IF JsonAt(s, c, "]") THEN JsonOk(c + 1, Append(acc, o.val))
    ELSE JsonFail

JsonElement(s, o, acc) ==
    JsonAfterElement(s, o, IF o.ok THEN JsonSkipWs(s, o.pos) ELSE 0, acc)

JsonParseElements(s, i, acc) ==
    JsonElement(s, JsonParseObject(s, JsonSkipWs(s, i)), acc)

JsonArrayBody(s, j) ==
    IF JsonAt(s, j, "]") THEN JsonOk(j + 1, <<>>)
    ELSE JsonParseElements(s, j, <<>>)

JsonParseArray(s, i) ==
    IF ~JsonAt(s, i, "[") THEN JsonFail ELSE JsonArrayBody(s, JsonSkipWs(s, i + 1))

\* json.load: one document, then only white space
JsonDocument(s, r) ==
    IF r.ok /\ JsonSkipWs(s, r.pos) = Len(s) + 1 THEN r ELSE JsonFail

LoadJson(s) == JsonDocument(s, JsonParseArray(s, JsonSkipWs(s, 1)))

----------------------------------------------------------------------------
(* The persistence adapter: load_todos and save_todos *)

Absent == [exists |-> FALSE, content |-> <<>>]
File(content) == [exists |-> TRUE, content |-> content]

\* A faulty variant of ProcessStart: the override outlives the process that
\* set it.
ProcessStart_Persisted == current_file_path

\* The value of the global current_file_path when a process has run the
\* module level statements (cli.py:27): an earlier process's assignment is
\* not there.
ProcessStart == None

\* current_file_path if current_file_path else config['DEFAULT']['FileName']
Filename(cfp) == IF cfp # None THEN cfp ELSE DefaultFileName

\* open(...) and the read raise: FileNotFoundError, or UnicodeDecodeError
Unreadable(f) == ~f.exists \/ InvalidByte \in Range(f.content)

\* the try block of load_todos raises something other than FileNotFoundError
LoadFails(format, f) ==
    /\ f.exists
    /\ \/ InvalidByte \in Range(f.content)
       \/ format = "json" /\ ~LoadJson(f.content).ok

\* load_todos: the empty list when the file is missing or cannot be read or
\* parsed
LoadTodos(format, fs, cfp) ==
    LET f == fs[Filename(cfp)] IN
    IF Unreadable(f) THEN <<>>
    ELSE IF format = "json" THEN
        LoadJson(f.content).val
    ELSE IF format = "csv" THEN LoadCsv(f.content)
    ELSE SplitLines(f.content)

Dump(format, todos) ==
    IF format = "json" THEN DumpJson(todos)
    ELSE IF format = "csv" THEN DumpCsv(todos)
    ELSE DumpTxt(todos)

\* save_todos: the file is rewritten as a whole (failures of the write
\* itself are not modelled)
SaveTodos(todos, format, fs, cfp) ==
    [fs EXCEPT ![Filename(cfp)] = File(Dump(format, todos))]

----------------------------------------------------------------------------
(* The commands.  A command's action is one whole invocation; its inputs  *)
(* are chosen after load_todos has run, which does not depend on them.     *)

\* the value of the variable saved: whether save_todos was called, and with
\* what
NotSaved == [called |-> FALSE, todos |-> <<>>]
Saved(todos) == [called |-> TRUE, todos |-> todos]

\* what add_todo appends (cli.py:99-107)
NewTodo(format, name, description, priority) ==
    IF format = "txt" THEN FormatTodo(name, description, PRIORITIES(priority))
    ELSE [name |-> name, description |-> description,
          priority |-> PRIORITIES(priority)]

\* A faulty variant of DeleteAccepts: the bound is off by one.
DeleteAccepts_Inclusive(idx, todos) == idx <= Len(todos)

\* the guard of delete_todo (cli.py:117)
DeleteAccepts(idx, todos) == idx < Len(todos)

\* list.pop(idx) raises IndexError: a negative idx counts from the end
PopRaises(idx, todos) ==
    LET k == IF idx < 0 THEN idx + Len(todos) ELSE idx IN
    k < 0 \/ k >= Len(todos)

\* A faulty variant of Pop: todos.pop(), which removes the last entry.
Pop_Last(idx, todos) == [j \in 1..(Len(todos) - 1) |-> todos[j]]

\* the list after todos.pop(idx)
Pop(idx, todos) ==
    LET k == IF idx < 0 THEN idx + Len(todos) ELSE idx IN
    [j \in 1..(Len(todos) - 1) |-> IF j <= k THEN todos[j] ELSE todos[j + 1]]

\* str(value) of a record's field in an f-string
Show(v) == IF v = NoneVal THEN W_None ELSE v

\* the list comprehension of list_todos raises TypeError: an entry of the
\* line text format is a str, and todo['priority'] indexes it with a str
FilterRaises(format, priority, todos) ==
    priority # None /\ format = "txt" /\ todos # <<>>

Matches(todo, priority) == todo.priority = PRIORITIES(priority)

\* filtered_todos (cli.py:131)
Filtered(format, priority, todos) ==
    IF priority = None THEN todos
    ELSE IF format = "txt" THEN <<>>
    ELSE SelectSeq(todos, LAMBDA t : Matches(t, priority))

\* the text of one entry in a printed line (cli.py:133-136)
EntryText(format, todo) ==
    IF format = "txt" THEN todo
    ELSE FormatTodo(Show(todo.name), Show(todo.description), Show(todo.priority))

\* A faulty variant of Listing: enumerate(filtered_todos, 1).
Listing_OneBased(format, shown) ==
    [k \in 1..Len(shown) |-> FormatLine(k, EntryText(format, shown[k]))]

\* the lines list_todos echoes: enumerate(filtered_todos)
Listing(format, shown) ==
    [k \in 1..Len(shown) |-> FormatLine(k - 1, EntryText(format, shown[k]))]

InvalidIndexMessage ==
    <<"I","n","v","a","l","i","d"," ","t","o","d","o"," ","i","n","d","e","x",".">>

HelloMessage(name) == <<"H","e","l","l","o"," ">> \o name \o <<"!">>

Init ==
    /\ storageType \in Formats
    /\ \E f \in {Absent} \cup { File(c) : c \in InitialContents } :
          files = [p \in Paths |-> IF p = DefaultFileName THEN f ELSE Absent]
    /\ current_file_path = None
    /\ cmd = "none"
    /\ args = [none |-> TRUE]
    /\ loaded = <<>>
    /\ saved = NotSaved
    /\ output = <<>>
    /\ error = NoError
    /\ overridden = FALSE

\* signin (cli.py:77-82): the prompt's answer becomes the global of this
\* process
Signin(path) ==
    /\ cmd' = "signin"
    /\ args' = [path |-> path]
    /\ current_file_path' = path
    /\ overridden' = TRUE
    /\ loaded' = <<>>
    /\ saved' = NotSaved
    /\ output' = <<>>
    /\ error' = NoError
    /\ UNCHANGED <<storageType, files>>

\* hello (cli.py:84-89)
Hello(name) ==
    /\ cmd' = "hello"
    /\ args' = [name |-> name]
    /\ current_file_path' = ProcessStart
    /\ loaded' = <<>>
    /\ saved' = NotSaved
    /\ output' = <<HelloMessage(name)>>
    /\ error' = NoError
    /\ UNCHANGED <<storageType, files, overridden>>

\* add_todo (cli.py:91-109)
AddTodo ==
    LET cfp == ProcessStart
        todos == LoadTodos(storageType, files, cfp)
    IN  \E a \in AddInputs :
        /\ Len(todos) < MaxLen
        /\ cmd' = "add-todo"
        /\ args' = a
        /\ current_file_path' = cfp
        /\ loaded' = todos
        /\ saved' = Saved(Append(todos, NewTodo(storageType, a.name,
                                                 a.description, a.priority)))
        /\ files' = SaveTodos(
               Append(todos, NewTodo(storageType, a.name, a.description,
                                     a.priority)),
               storageType, files, cfp)
        /\ output' = <<>>
        /\ error' = NoError
        /\ UNCHANGED <<storageType, overridden>>

\* delete_todo (cli.py:111-123)
DeleteTodo ==
    LET cfp == ProcessStart
        todos == LoadTodos(storageType, files, cfp)
    IN  \E idx \in Indices :
        /\ cmd' = "delete-todo"
        /\ args' = [idx |-> idx]
        /\ current_file_path' = cfp
        /\ loaded' = todos
        /\ IF DeleteAccepts(idx, todos)
           THEN IF PopRaises(idx, todos)
                THEN /\ error' = "IndexError"
                     /\ output' = <<>>
                     /\ saved' = NotSaved
                     /\ files' = files
                ELSE /\ error' = NoError
                     /\ output' = <<>>
                     /\ saved' = Saved(Pop(idx, todos))
                     /\ files' = SaveTodos(Pop(idx, todos), storageType, files, cfp)
           ELSE /\ error' = NoError
                /\ output' = <<InvalidIndexMessage>>
                /\ saved' = NotSaved
                /\ files' = files
        /\ UNCHANGED <<storageType, overridden>>

\* list_todos (cli.py:125-137)
ListTodos ==
    LET cfp == ProcessStart
        todos == LoadTodos(storageType, files, cfp)
    IN  \E priority \in FilterKeys \cup {None} :
        /\ cmd' = "list-todos"
        /\ args' = [priority |-> priority]
        /\ current_file_path' = cfp
        /\ loaded' = todos
        /\ saved' = NotSaved
        /\ IF FilterRaises(storageType, priority, todos)
           THEN /\ error' = "TypeError"
                /\ output' = <<>>
           ELSE /\ error' = NoError
                /\ output' = Listing(storageType,
                                     Filtered(storageType, priority, todos))
        /\ UNCHANGED <<storageType, files, overridden>>

Next ==
    \/ \E path \in Paths \ {DefaultFileName} : Signin(path)
    \/ \E name \in HelloNames : Hello(name)
    \/ AddTodo
    \/ DeleteTodo
    \/ ListTodos

Spec == Init /\ [][Next]_vars

\* the exit status of the last invocation: an uncaught exception ends the
\* interpreter with status 1
ExitCode == IF error = NoError THEN 0 ELSE 1

\* the collection the default file holds, as a new process would load it
Stored == LoadTodos(storageType, files, ProcessStart)

----------------------------------------------------------------------------
(* Definitions the properties below are stated with *)

\* seq without its element at the 0-based position i
RemoveAt(seq, i) == SubSeq(seq, 1, i) \o SubSeq(seq, i + 2, Len(seq))

\* the index given to delete-todo is an index of the loaded collection
ValidIndex(i, todos) == 0 <= i /\ i < Len(todos)

\* s ends with t
EndsWith(s, t) ==
    Len(s) >= Len(t) /\ SubSeq(s, Len(s) - Len(t) + 1, Len(s)) = t

\* the entry carries the priority label: as its field, or, in the line text
\* format, as the end of its text
HasLabel(format, todo, label) ==
    IF format = "txt"
    THEN EndsWith(todo, <<" ", "[", "P","r","i","o","r","i","t","y", ":", " ">>
                        \o label \o <<"]">>)
    ELSE todo.priority = label

\* the lines a filtered listing is to print: the entries that carry the
\* label, numbered from 0 in that order
ExpectedListing(format, todos, label) ==
    LET sel == SelectSeq(todos, LAMBDA t : HasLabel(format, t, label))
    IN  [k \in 1..Len(sel) |-> FormatLine(k - 1, EntryText(format, sel[k]))]

ScenarioAdd == [priority |-> "h", name |-> <<"X">>, description |-> <<"Y">>]

ScenarioLine(label) ==
    <<"(", "0", ")", " ", "-", " ", "X", ":", " ", "Y", " ", "[",
      "P","r","i","o","r","i","t","y", ":", " ">> \o label \o <<"]">>

W_Crucial == <<"C","r","u","c","i","a","l">>
W_High == <<"H","i","g","h">>

FileCommands == {"add-todo", "delete-todo", "list-todos"}

----------------------------------------------------------------------------
(* The claims *)

\* C1: delete with an out-of-range index (i >= len or i < 0) does not
\* mutate or save the file: the file system after the invocation is the one
\* before it, and save_todos is not called.
C1_OutOfRangeDeleteLeavesFile ==
    [][ (cmd' = "delete-todo"
            /\ (args'.idx >= Len(loaded') \/ args'.idx < 0))
        => (files' = files /\ ~saved'.called) ]_vars

\* C2: delete with a valid index i (0 <= i < len) removes exactly that
\* entry: the collection stored afterwards has length len - 1 and is the
\* loaded collection without its entry at position i, the others in order.
C2_DeleteValidIndex ==
    (cmd = "delete-todo" /\ ValidIndex(args.idx, loaded))
    => /\ error = NoError
       /\ Len(Stored) = Len(loaded) - 1
       /\ Stored = RemoveAt(loaded, args.idx)

\* a delete of the middle entry of three has run
C2_Witness ==
    /\ cmd = "delete-todo" /\ args.idx = 1 /\ Len(loaded) = 3
    /\ loaded[1] # loaded[2]
    /\ Stored = <<loaded[1], loaded[3]>>

\* C3: an invalid delete index (one that does not satisfy 0 <= i < length)
\* is reported, not crashed on: delete-todo prints `Invalid todo index.`
\* and ends with exit code 0, raising no uncaught error.
C3_InvalidIndexIsReported ==
    (cmd = "delete-todo" /\ ~ValidIndex(args.idx, loaded))
    => (output = <<InvalidIndexMessage>> /\ error = NoError /\ ExitCode = 0)

\* C4: add followed by load increases the collection length by exactly 1
\* relative to what load returned before the add, and the last entry of
\* the loaded collection is the new entry, made of the add's name and
\* description and the display name of its priority key.
C4_AddThenLoad ==
    cmd = "add-todo"
    => /\ Len(Stored) = Len(loaded) + 1
       /\ Stored[Len(Stored)]
            = NewTodo(storageType, args.name, args.description, args.priority)

\* C5: list with a priority filter key k prints exactly the entries of the
\* loaded collection whose priority label is PRIORITIES[k], in their order,
\* numbered from 0 by position in the filtered result, and no error occurs
\* (nothing is printed when no entry matches).
C5_FilteredList ==
    (cmd = "list-todos" /\ args.priority # None)
    => /\ error = NoError
       /\ output = ExpectedListing(storageType, loaded, PRIORITIES(args.priority))

\* C6, as stated: from an empty store, add-todo h -n X -d Y followed by
\* list-todos prints the single line `(0) - X: Y [Priority: Crucial]`.
C6_ScenarioPrintsCrucial ==
    [][ (cmd = "add-todo" /\ loaded = <<>> /\ args = ScenarioAdd
            /\ cmd' = "list-todos" /\ args'.priority = None)
        => output' = <<ScenarioLine(W_Crucial)>> ]_vars

\* C6, amended: from an empty store, add-todo h -n X -d Y followed by
\* list-todos prints the single line `(0) - X: Y [Priority: High]`, in
\* each of the three formats, and ends without error.
C6_ScenarioPrintsHigh ==
    [][ (cmd = "add-todo" /\ loaded = <<>> /\ args = ScenarioAdd
            /\ cmd' = "list-todos" /\ args'.priority = None)
        => (output' = <<ScenarioLine(W_High)>> /\ error' = NoError) ]_vars

\* an unfiltered list-todos has printed the scenario's line
C6_Witness ==
    /\ cmd = "list-todos" /\ args.priority = None
    /\ Len(loaded) = 1
    /\ output = <<ScenarioLine(W_High)>>

\* C7: round trip: load after save(X) returns the entries of X in the order
\* of X, and saving what was loaded reproduces the file; X is each
\* collection a command gives to save_todos.
C7_RoundTrip ==
    saved.called
    => /\ Stored = saved.todos
       /\ Dump(storageType, Stored) = files[DefaultFileName].content

\* C8: the file path override lives only in the process that ran
\* set-file-path: at the end of that process the global holds the path and
\* load and save would use it; every add, delete or list invocation, whatever
\* preceded it, starts without it, loads the configured default file, and
\* leaves every other file as it was.
C8_OverrideDiesWithProcess ==
    [][ /\ cmd' = "signin"
           => /\ current_file_path' = args'.path
              /\ Filename(current_file_path') = args'.path
              /\ files' = files
        /\ cmd' \in FileCommands
           => /\ current_file_path' = None
              /\ loaded' = LoadTodos(storageType,
                     [p \in Paths |-> IF p = DefaultFileName
                                      THEN files[DefaultFileName] ELSE Absent],
                     None)
              /\ \A p \in Paths \ {DefaultFileName} : files'[p] = files[p]
              /\ saved'.called
                 => files'[DefaultFileName]
                      = File(Dump(storageType, saved'.todos)) ]_vars

\* an add-todo has run after a signin and has written the default file
C8_Witness ==
    /\ overridden /\ cmd = "add-todo"
    /\ files[DefaultFileName] = File(Dump(storageType, saved.todos))
    /\ ~files[OtherPath].exists

\* C9: the index printed by list without a filter is the index delete acts
\* on: when an unfiltered list has printed its lines and delete(i) comes
\* next, for a printed line number i, the line numbered i is line i + 1 of
\* the output, it shows the entry delete finds at position i, and that
\* entry is the one removed.
C9_ListIndexIsDeleteIndex ==
    [][ (cmd = "list-todos" /\ args.priority = None /\ error = NoError
            /\ cmd' = "delete-todo" /\ ValidIndex(args'.idx, output))
        => /\ Len(output) = Len(loaded')
           /\ output[args'.idx + 1]
                = FormatLine(args'.idx,
                             EntryText(storageType, loaded'[args'.idx + 1]))
           /\ saved' = Saved(RemoveAt(loaded', args'.idx))
           /\ LoadTodos(storageType, files', ProcessStart)
                = RemoveAt(loaded', args'.idx) ]_vars

\* an unfiltered list has printed three lines, of entries that differ
C9_Witness ==
    /\ cmd = "list-todos" /\ args.priority = None /\ error = NoError
    /\ Len(output) = 3 /\ output[1] # output[2]

\* C9, second part: with a filter the printed index need not be the stored
\* position: a line numbered 0 can show an entry that is not the first one.
C9_FilteredIndexIsStoredIndex ==
    (cmd = "list-todos" /\ args.priority # None /\ error = NoError
        /\ output # <<>>)
    => output[1] = FormatLine(0, EntryText(storageType, loaded[1]))

\* C10: when the todo file exists and load cannot parse it, load returns
\* the empty collection; a following add overwrites the file with the
\* collection of exactly the one new entry, and the previous content is
\* gone; a following delete with an index i >= 0 reports an invalid index
\* and leaves the file as it was.
C10_UnparseableFile ==
    [][ LoadFails(storageType, files[DefaultFileName])
        => /\ cmd' \in FileCommands => loaded' = <<>>
           /\ cmd' = "add-todo"
              => /\ saved' = Saved(<<NewTodo(storageType, args'.name,
                                            args'.description, args'.priority)>>)
                 /\ files'[DefaultFileName]
                      = File(Dump(storageType, saved'.todos))
                 /\ files'[DefaultFileName] # files[DefaultFileName]
                 /\ ~LoadFails(storageType, files'[DefaultFileName])
           /\ (cmd' = "delete-todo" /\ args'.idx >= 0)
              => /\ output' = <<InvalidIndexMessage>>
                 /\ error' = NoError
                 /\ files' = files ]_vars

\* a delete with an index >= 0 has run on a file that does not parse
C10_Witness ==
    /\ LoadFails(storageType, files[DefaultFileName])
    /\ cmd = "delete-todo" /\ args.idx >= 0
    /\ output = <<InvalidIndexMessage>>

----------------------------------------------------------------------------
(* Where C4 and C7 do hold: in the structured formats, and in the line     *)
(* text format for entries without a line feed.                            *)

\* no entry of a line text collection holds a line feed
SingleLines(todos) == \A k \in 1..Len(todos) : LF \notin Range(todos[k])

AddThenLoadStructured == storageType # "txt" => C4_AddThenLoad

AddThenLoadSingleLine ==
    (storageType = "txt" /\ cmd = "add-todo" /\ LF \notin Range(args.name))
    => C4_AddThenLoad

RoundTripStructured == storageType # "txt" => C7_RoundTrip

RoundTripSingleLines ==
    (storageType = "txt" /\ saved.called /\ SingleLines(saved.todos))
    => C7_RoundTrip

\* saving what was loaded reproduces the file written, in every format
RoundTripOfFile ==
    saved.called => Dump(storageType, Stored) = files[DefaultFileName].content

====
